---- MODULE Spec2Model ----
(***************************************************************************)
(* Verlet particle simulation (src/src/main.rs): Point, Bounds,            *)
(* Point::move_point, Bounds::constrain_point, solve_collision,            *)
(* update_points_system, add_points and spawn_item.                        *)
(*                                                                         *)
(* Every f32 of the program is an IEEE-754 binary32 value, held as its     *)
(* three bit fields [sign, exp, frac] (1, 8 and 23 bits).  The arithmetic  *)
(* below is binary32 arithmetic with round-to-nearest-even, subnormals,    *)
(* signed zeros, infinities and NaN; all NaNs are one value (the payload   *)
(* and sign of a NaN are not modelled).                                    *)
(***************************************************************************)
EXTENDS Integers, Sequences, FiniteSets

(***************************************************************************)
(* binary32                                                                *)
(***************************************************************************)
Pow2(n) ==
  <<1, 2, 4, 8, 16, 32, 64, 128, 256, 512, 1024, 2048, 4096, 8192, 16384,
    32768, 65536, 131072, 262144, 524288, 1048576, 2097152, 4194304,
    8388608, 16777216, 33554432, 67108864, 134217728, 268435456,
    536870912, 1073741824>>[n + 1]

RECURSIVE BitLen(_)
BitLen(n) == IF n = 0 THEN 0 ELSE 1 + BitLen(n \div 2)

F32(s, e, m) == [sign |-> s, exp |-> e, frac |-> m]

NaN == F32(0, 255, 4194304)

Inf(s) == F32(s, 255, 0)

Zero(s) == F32(s, 0, 0)

IsNaN(a) == a.exp = 255 /\ a.frac # 0

IsInf(a) == a.exp = 255 /\ a.frac = 0

IsZero(a) == a.exp = 0 /\ a.frac = 0

IsFinite(a) == a.exp # 255

\* The significand with its hidden bit, and the exponent of its last bit:
\* a finite a is (-1)^sign * Sig(a) * 2^Ex(a).
Sig(a) == IF a.exp = 0 THEN a.frac ELSE a.frac + 8388608

Ex(a) == IF a.exp = 0 THEN -149 ELSE a.exp - 150

\* The same value with the significand shifted into [2^23, 2^24).
NShift(a) == IF a.exp = 0 THEN 24 - BitLen(a.frac) ELSE 0

NSig(a) == Sig(a) * Pow2(NShift(a))

NEx(a) == Ex(a) - NShift(a)

\* q < 2^24 at exponent t: the bit fields (an exponent past 127 is an infinity).
PackN(s, q, t) ==
  IF q < 8388608 THEN F32(s, 0, q)
  ELSE IF t + 150 >= 255 THEN Inf(s)
  ELSE F32(s, t + 150, q - 8388608)

Pack(s, q, t) ==
  IF q = 0 THEN Zero(s)
  ELSE IF q = 16777216 THEN PackN(s, 8388608, t + 1)
  ELSE PackN(s, q, t)

\* Round sig * 2^ex (0 <= sig < 2^30; st = 1 when nonzero bits were dropped
\* below sig) to the nearest binary32, ties to even.
RoundPack(s, sig, ex, st) ==
  IF sig = 0 THEN Zero(s)
  ELSE LET len == BitLen(sig)
           t0  == ex + len - 24
           t   == IF t0 < -149 THEN -149 ELSE t0
           k   == t - ex
       IN IF k <= 0 THEN Pack(s, sig * Pow2(-k), t)
          ELSE IF k > 30 THEN Zero(s)
          ELSE LET q    == sig \div Pow2(k)
                   r    == sig % Pow2(k)
                   half == Pow2(k - 1)
                   up   == r > half \/ (r = half /\ (st = 1 \/ q % 2 = 1))
               IN Pack(s, IF up THEN q + 1 ELSE q, t)

\* x shifted right by d bits, the dropped bits or-ed into the last bit.
ShiftRightJam(x, d) ==
  IF d = 0 THEN x
  ELSE IF d > 30 THEN (IF x = 0 THEN 0 ELSE 1)
  ELSE LET q == x \div Pow2(d)
       IN IF x % Pow2(d) # 0 /\ q % 2 = 0 THEN q + 1 ELSE q

MagLess(a, b) == a.exp < b.exp \/ (a.exp = b.exp /\ a.frac < b.frac)

FNeg(a) == IF IsNaN(a) THEN NaN ELSE F32(1 - a.sign, a.exp, a.frac)

FAdd(a, b) ==
  IF IsNaN(a) \/ IsNaN(b) THEN NaN
  ELSE IF IsInf(a) THEN (IF IsInf(b) /\ a.sign # b.sign THEN NaN ELSE a)
  ELSE IF IsInf(b) THEN b
  ELSE IF IsZero(a) /\ IsZero(b)
       THEN Zero(IF a.sign = 1 /\ b.sign = 1 THEN 1 ELSE 0)
  ELSE IF IsZero(a) THEN b
  ELSE IF IsZero(b) THEN a
  ELSE LET big   == IF MagLess(a, b) THEN b ELSE a
           small == IF MagLess(a, b) THEN a ELSE b
           mb    == Sig(big) * 32
           ms    == ShiftRightJam(Sig(small) * 32, Ex(big) - Ex(small))
       IN IF a.sign = b.sign
          THEN RoundPack(big.sign, mb + ms, Ex(big) - 5, 0)
          ELSE IF mb = ms THEN Zero(0)
          ELSE RoundPack(big.sign, mb - ms, Ex(big) - 5, 0)

FSub(a, b) == FAdd(a, FNeg(b))

FMul(a, b) ==
  LET s == IF a.sign = b.sign THEN 0 ELSE 1
  IN IF IsNaN(a) \/ IsNaN(b) THEN NaN
     ELSE IF IsInf(a) \/ IsInf(b)
          THEN (IF IsZero(a) \/ IsZero(b) THEN NaN ELSE Inf(s))
     ELSE IF IsZero(a) \/ IsZero(b) THEN Zero(s)
     ELSE LET ma   == NSig(a)
              mb   == NSig(b)
              ah   == ma \div 4096
              al   == ma % 4096
              bh   == mb \div 4096
              bl   == mb % 4096
              mid  == ah * bl + al * bh
              lo   == al * bl + (mid % 4096) * 4096
              hi   == ah * bh + mid \div 4096 + lo \div 16777216
              lo24 == lo % 16777216
          IN RoundPack(s, hi * 32 + lo24 \div 524288, NEx(a) + NEx(b) + 19,
                       IF lo24 % 524288 # 0 THEN 1 ELSE 0)

FDiv(a, b) ==
  LET s == IF a.sign = b.sign THEN 0 ELSE 1
  IN IF IsNaN(a) \/ IsNaN(b) THEN NaN
     ELSE IF IsInf(a) THEN (IF IsInf(b) THEN NaN ELSE Inf(s))
     ELSE IF IsInf(b) THEN Zero(s)
     ELSE IF IsZero(b) THEN (IF IsZero(a) THEN NaN ELSE Inf(s))
     ELSE IF IsZero(a) THEN Zero(s)
     ELSE LET ma == NSig(a)
              mb == NSig(b)
              q0 == ma \div mb
              r0 == ma % mb
              c1 == (r0 * 128) \div mb
              r1 == (r0 * 128) % mb
              c2 == (r1 * 128) \div mb
              r2 == (r1 * 128) % mb
              c3 == (r2 * 128) \div mb
              r3 == (r2 * 128) % mb
              c4 == (r3 * 128) \div mb
              r4 == (r3 * 128) % mb
          IN RoundPack(s,
                       q0 * 268435456 + c1 * 2097152 + c2 * 16384 + c3 * 128 + c4,
                       NEx(a) - NEx(b) - 28,
                       IF r4 # 0 THEN 1 ELSE 0)

\* The integer square root of m2 * 2^26 (m2 < 2^26), two bits of the radicand
\* a step: <<root, remainder>> after steps i..25.
RECURSIVE SqrtDigits(_, _, _, _)
SqrtDigits(m2, i, root, rem) ==
  IF i = 26 THEN <<root, rem>>
  ELSE LET pair  == IF i < 13 THEN (m2 \div Pow2(2 * (12 - i))) % 4 ELSE 0
           rem2  == rem * 4 + pair
           trial == root * 4 + 1
       IN IF rem2 >= trial
          THEN SqrtDigits(m2, i + 1, root * 2 + 1, rem2 - trial)
          ELSE SqrtDigits(m2, i + 1, root * 2, rem2)

FSqrt(a) ==
  IF IsNaN(a) THEN NaN
  ELSE IF IsZero(a) THEN a
  ELSE IF a.sign = 1 THEN NaN
  ELSE IF IsInf(a) THEN a
  ELSE LET odd == NEx(a) % 2 # 0
           m2  == IF odd THEN NSig(a) * 2 ELSE NSig(a)
           e2  == IF odd THEN NEx(a) - 1 ELSE NEx(a)
           rr  == SqrtDigits(m2, 0, 0, 0)
       IN RoundPack(0, rr[1], (e2 - 26) \div 2, IF rr[2] # 0 THEN 1 ELSE 0)

\* The order of the values: -0 = +0, and no NaN compares.
Key(a) == (IF a.sign = 0 THEN 1 ELSE -1) * (a.exp * 8388608 + a.frac)

FLt(a, b) == ~IsNaN(a) /\ ~IsNaN(b) /\ Key(a) < Key(b)

FGt(a, b) == FLt(b, a)

FLe(a, b) == ~IsNaN(a) /\ ~IsNaN(b) /\ Key(a) <= Key(b)

FEq(a, b) == ~IsNaN(a) /\ ~IsNaN(b) /\ Key(a) = Key(b)

\* `n as f32` for an integer |n| < 2^30.
IntToF(n) == RoundPack(IF n < 0 THEN 1 ELSE 0, IF n < 0 THEN -n ELSE n, 0, 0)

\* A decimal literal n/d of the source (n, d integers below 2^24): the nearest f32.
Dec(n, d) == FDiv(IntToF(n), IntToF(d))

(***************************************************************************)
(* The program                                                             *)
(***************************************************************************)
\* GRAVITY with its sign lost.
GRAVITY_up == IntToF(100)

GRAVITY == IntToF(-100)

FRICTION == Dec(99, 100)

BOUNCE == Dec(99, 100)

SUBSTEPS == 8

Bounds_new(min_x, min_y, max_x, max_y) ==
  [min_x |-> min_x, min_y |-> min_y, max_x |-> max_x, max_y |-> max_y]

Point_new(id, x, y, vx, vy) ==
  [id |-> id, x |-> x, y |-> y,
   old_x |-> FSub(x, vx), old_y |-> FSub(y, vy),
   radius |-> IntToF(1), color |-> 0,
   acc_x |-> Zero(0), acc_y |-> Zero(0)]

vel_x(self) == FSub(self.x, self.old_x)

vel_y(self) == FSub(self.y, self.old_y)

constrain_point(self, point, axis) ==
  IF axis = "Horizontal"
  THEN IF FGt(point.x, IntToF(self.max_x))
       THEN LET v == FMul(vel_x(point), FRICTION)
            IN [point EXCEPT !.x = IntToF(self.max_x),
                             !.old_x = FAdd(IntToF(self.max_x), FMul(v, BOUNCE))]
       ELSE IF FLt(point.x, IntToF(self.min_x))
       THEN LET v == FMul(vel_x(point), FRICTION)
            IN [point EXCEPT !.x = IntToF(self.min_x),
                             !.old_x = FAdd(IntToF(self.min_x), FMul(v, BOUNCE))]
       ELSE point
  ELSE IF FGt(point.y, IntToF(self.max_y))
       THEN LET v == FMul(vel_y(point), FRICTION)
            IN [point EXCEPT !.y = IntToF(self.max_y),
                             !.old_y = FAdd(IntToF(self.max_y), FMul(v, BOUNCE))]
       ELSE IF FLt(point.y, IntToF(self.min_y))
       THEN LET v == FMul(vel_y(point), FRICTION)
            IN [point EXCEPT !.y = IntToF(self.min_y),
                             !.old_y = FAdd(IntToF(self.min_y), FMul(v, BOUNCE))]
       ELSE point

\* verlet with the snapshot of old_x, old_y taken after the move instead of before.
verlet_late_snapshot(self, dt) ==
  LET vx == FMul(vel_x(self), FRICTION)
      vy == FMul(vel_y(self), FRICTION)
      nx == FAdd(self.x, FAdd(vx, FMul(FMul(self.acc_x, dt), dt)))
      ny == FAdd(self.y, FAdd(vy, FMul(FMul(self.acc_y, dt), dt)))
  IN [self EXCEPT !.old_x = nx, !.old_y = ny, !.x = nx, !.y = ny,
                  !.acc_x = Zero(0), !.acc_y = Zero(0)]

\* move_point up to its calls of constrain_point: the Verlet move.
verlet(self, dt) ==
  LET vx == FMul(vel_x(self), FRICTION)
      vy == FMul(vel_y(self), FRICTION)
  IN [self EXCEPT
        !.old_x = self.x,
        !.old_y = self.y,
        !.x = FAdd(self.x, FAdd(vx, FMul(FMul(self.acc_x, dt), dt))),
        !.y = FAdd(self.y, FAdd(vy, FMul(FMul(self.acc_y, dt), dt))),
        !.acc_x = Zero(0),
        !.acc_y = Zero(0)]

move_point(self, bounds_, dt) ==
  constrain_point(bounds_,
                  constrain_point(bounds_, verlet(self, dt), "Horizontal"),
                  "Vertical")

apply_acceleration(self, x, y) ==
  [self EXCEPT !.acc_x = FAdd(self.acc_x, x), !.acc_y = FAdd(self.acc_y, y)]

dist(self, other) ==
  LET dx == FSub(self.x, other.x)
      dy == FSub(self.y, other.y)
  IN FSqrt(FAdd(FMul(dx, dx), FMul(dy, dy)))

colliding(self, other) ==
  FGt(FAdd(self.radius, other.radius), dist(self, other))

\* The correction solve_collision applies, with and without FRICTION.
correction(p1, p2, f) ==
  LET d     == dist(p1, p2)
      delta == FSub(FAdd(p1.radius, p2.radius), d)
  IN << FMul(FMul(FMul(Dec(1, 2), delta), FDiv(FSub(p1.x, p2.x), d)), f),
        FMul(FMul(FMul(Dec(1, 2), delta), FDiv(FSub(p1.y, p2.y), d)), f) >>

\* solve_collision moving p1 alone.
solve_collision_one_sided(p1, p2) ==
  LET c == correction(p1, p2, FRICTION)
  IN << [p1 EXCEPT !.x = FAdd(p1.x, c[1]), !.y = FAdd(p1.y, c[2])], p2 >>

\* solve_collision with the signs of the two updates exchanged.
solve_collision_inverted(p1, p2) ==
  LET c == correction(p1, p2, FRICTION)
  IN << [p1 EXCEPT !.x = FSub(p1.x, c[1]), !.y = FSub(p1.y, c[2])],
        [p2 EXCEPT !.x = FAdd(p2.x, c[1]), !.y = FAdd(p2.y, c[2])] >>

\* solve_collision without the FRICTION factor.
solve_collision_no_friction(p1, p2) ==
  LET c == correction(p1, p2, IntToF(1))
  IN << [p1 EXCEPT !.x = FAdd(p1.x, c[1]), !.y = FAdd(p1.y, c[2])],
        [p2 EXCEPT !.x = FSub(p2.x, c[1]), !.y = FSub(p2.y, c[2])] >>

\* <<p1, p2>> after solve_collision(p1, p2).
solve_collision(p1, p2) ==
  LET delta_x == FSub(p1.x, p2.x)
      delta_y == FSub(p1.y, p2.y)
      d       == dist(p1, p2)
      n_x     == FDiv(delta_x, d)
      n_y     == FDiv(delta_y, d)
      delta   == FSub(FAdd(p1.radius, p2.radius), d)
      cx      == FMul(FMul(FMul(Dec(1, 2), delta), n_x), FRICTION)
      cy      == FMul(FMul(FMul(Dec(1, 2), delta), n_y), FRICTION)
  IN << [p1 EXCEPT !.x = FAdd(p1.x, cx), !.y = FAdd(p1.y, cy)],
        [p2 EXCEPT !.x = FSub(p2.x, cx), !.y = FSub(p2.y, cy)] >>

\* The pairs of 1..n in the order iter_combinations_mut yields them.
RECURSIVE PairsFrom(_, _, _)
PairsFrom(n, a, b) ==
  IF a >= n THEN <<>>
  ELSE IF b > n THEN PairsFrom(n, a + 1, a + 2)
  ELSE <<(<<a, b>>)>> \o PairsFrom(n, a, b + 1)

Pairs(n) == PairsFrom(n, 1, 2)

(***************************************************************************)
(* State                                                                   *)
(*   points   the Point components, in the order the query yields them     *)
(*   bounds   the Bounds resource                                          *)
(*   delta    time.delta_seconds() of the frame being run                  *)
(*   frame    time.delta() of that frame, in milliseconds                  *)
(*   timer, spawn_id   the SpawnTimer resource: the milliseconds elapsed   *)
(*            of its repeating timer, and its id                           *)
(*   run, due   update_points_system, spawn_item has yet to run in the     *)
(*            current frame                                                *)
(*   commands   the Points spawn_item has queued in Commands, not yet in   *)
(*            the query                                                    *)
(*   script   the deltas (ms) of the frames the host still runs, when the  *)
(*            run is a recorded one                                        *)
(*   left     frames the host still runs otherwise (the exploration's      *)
(*            bound)                                                       *)
(*   pc, sub, i, k, sub_dt   update_points_system's position: the phase,   *)
(*            the substep (0-based), the particle and the pair about to be *)
(*            handled, and its local sub_dt                                *)
(* History, written and never read by the program:                         *)
(*   before   each particle as it was when its latest integration (or the  *)
(*            latest resolve call) began                                   *)
(*   moved    integrations of each particle in the current frame           *)
(*   tested   collision tests of each pair in the current frame (resolve   *)
(*            calls, in SpecResolve)                                       *)
(***************************************************************************)
VARIABLES points, bounds, delta, left, pc, sub, i, k, sub_dt,
          before, moved, tested, frame, timer, spawn_id, due, script,
          run, commands

vars == <<points, bounds, delta, left, pc, sub, i, k, sub_dt,
          before, moved, tested, frame, timer, spawn_id, due, script,
          run, commands>>

\* What the simulation itself never writes: the host's and spawn_item's state.
host == <<frame, timer, spawn_id, due, script, run, commands>>

MaxSteps == 4

MaxCalls == 6

N == Len(points)

NPairs == Len(Pairs(N))

\* main(): Bounds::new(-40, -12, 40, 40).
MainBounds == Bounds_new(-40, -12, 40, 40)

\* main(): Timer::new(Duration::from_millis(500), TimerMode::Repeating), id: 10.
SpawnPeriod == 500

FirstSpawnId == 10

\* time.delta_seconds() of a frame of ms milliseconds: Duration::as_secs_f32.
Secs(ms) == FAdd(IntToF(ms \div 1000), FDiv(IntToF(ms % 1000), IntToF(1000)))

\* Frame times, in milliseconds: a 60 Hz frame and two long frames.
FrameMs == {16, 400, 800}

\* Frames of the steady run.
SteadyFrames == 180

\* Recorded runs: a steady run of 16 ms frames, and three runs of long frames.
Scripts ==
  { [n \in 1..SteadyFrames |-> 16],
    <<400, 400, 1000, 400, 400, 1000>>,
    <<800, 400, 400, 800, 800, 800, 800>>,
    <<2000, 2000, 800, 800, 800, 800, 2000, 2000, 2000, 2000, 800, 2000, 800>> }

Idle(ps, b, d, n, sc) ==
  /\ frame = 0
  /\ timer = 0
  /\ spawn_id = FirstSpawnId
  /\ due = FALSE
  /\ run = FALSE
  /\ commands = <<>>
  /\ script = sc
  /\ points = ps
  /\ bounds = b
  /\ delta = d
  /\ left = n
  /\ pc = "idle"
  /\ sub = 0
  /\ i = 1
  /\ k = 1
  /\ sub_dt = Zero(0)
  /\ before = ps
  /\ moved = [j \in 1..Len(ps) |-> 0]
  /\ tested = [q \in 1..Len(Pairs(Len(ps))) |-> 0]

\* add_points has run: Point::new(0, 5.0, 20.0, 0.1, 0.0).
add_points == <<Point_new(0, Dec(5, 1), Dec(20, 1), Dec(1, 10), Zero(0))>>

Init ==
  \/ Idle(add_points, MainBounds, Zero(0), MaxSteps, <<>>)
  \/ \E sc \in Scripts : Idle(add_points, MainBounds, Zero(0), 0, sc)

\* update_points_system is entered: sub_dt, and the first substep begins.
Enter(d) ==
  /\ pc = "idle"
  /\ delta' = d
  /\ sub_dt' = FDiv(d, IntToF(SUBSTEPS))
  /\ pc' = "move"
  /\ sub' = 0
  /\ i' = 1
  /\ k' = 1
  /\ moved' = [j \in 1..N |-> 0]
  /\ tested' = [q \in 1..NPairs |-> 0]
  /\ UNCHANGED <<points, bounds, before>>

\* A frame begins once the systems of the frame before have run and their
\* Commands are applied: the host fixes time.delta(), and the systems of
\* main's add_system calls are to run, in no fixed order.
Tick ==
  /\ pc = "idle"
  /\ ~run
  /\ ~due
  /\ commands = <<>>
  /\ \E ms \in (IF script # <<>> THEN {Head(script)}
                ELSE IF left > 0 THEN FrameMs ELSE {}) :
       frame' = ms
  /\ script' = IF script # <<>> THEN Tail(script) ELSE script
  /\ left' = IF script # <<>> THEN left ELSE left - 1
  /\ run' = TRUE
  /\ due' = TRUE
  /\ UNCHANGED <<points, bounds, delta, pc, sub, i, k, sub_dt, before, moved,
                 tested, timer, spawn_id, commands>>

\* The scheduler starts update_points_system.
Start ==
  /\ run
  /\ Enter(Secs(frame))
  /\ run' = FALSE
  /\ UNCHANGED <<left, frame, timer, spawn_id, due, script, commands>>

\* Integrate with the pairs resolved after each particle instead of after all.
IntegrateThenPairs ==
  /\ pc = "move"
  /\ points' = [points EXCEPT ![i] =
                  move_point(apply_acceleration(points[i], Zero(0), GRAVITY),
                             bounds, sub_dt)]
  /\ before' = [before EXCEPT ![i] = points[i]]
  /\ moved' = [moved EXCEPT ![i] = moved[i] + 1]
  /\ i' = i + 1
  /\ pc' = "pairs"
  /\ k' = 1
  /\ UNCHANGED <<bounds, delta, left, sub, sub_dt, tested, host>>

\* One iteration of `for mut point in query.iter_mut()`.
Integrate ==
  /\ pc = "move"
  /\ points' = [points EXCEPT ![i] =
                  move_point(apply_acceleration(points[i], Zero(0), GRAVITY),
                             bounds, sub_dt)]
  /\ before' = [before EXCEPT ![i] = points[i]]
  /\ moved' = [moved EXCEPT ![i] = moved[i] + 1]
  /\ i' = i + 1
  /\ pc' = IF i = N THEN "pairs" ELSE "move"
  /\ k' = 1
  /\ UNCHANGED <<bounds, delta, left, sub, sub_dt, tested, host>>

\* One iteration of `while let Some([p1, p2]) = i.fetch_next()`.
Collide ==
  /\ pc = "pairs"
  /\ k <= NPairs
  /\ LET a == Pairs(N)[k][1]
         b == Pairs(N)[k][2]
         r == solve_collision(points[a], points[b])
     IN points' = IF colliding(points[a], points[b])
                  THEN [points EXCEPT ![a] = r[1], ![b] = r[2]]
                  ELSE points
  /\ tested' = [tested EXCEPT ![k] = tested[k] + 1]
  /\ k' = k + 1
  /\ UNCHANGED <<bounds, delta, left, pc, sub, i, sub_dt, before, moved, host>>

\* fetch_next() returns None: the substep ends, and after SUBSTEPS of them the call.
EndSubstep ==
  /\ pc = "pairs"
  /\ k > NPairs
  /\ sub' = sub + 1
  /\ pc' = IF sub + 1 = SUBSTEPS THEN "idle" ELSE "move"
  /\ i' = 1
  /\ k' = 1
  /\ UNCHANGED <<points, bounds, delta, left, sub_dt, before, moved, tested, host>>

\* spawn_item, run by the scheduler at any point of the frame.  The timer is
\* ticked by the frame's delta; a repeating timer that reaches its duration is
\* finished for this tick and keeps the remainder.  commands.spawn queues the
\* Point.
spawn_item ==
  /\ due
  /\ LET elapsed  == timer + frame
         finished == elapsed >= SpawnPeriod
     IN /\ timer' = IF finished THEN elapsed % SpawnPeriod ELSE elapsed
        /\ spawn_id' = IF finished THEN spawn_id + 1 ELSE spawn_id
        /\ commands' = IF finished
                       THEN Append(commands,
                                   Point_new(spawn_id, Zero(0), Dec(20, 1),
                                             Dec(1, 10), Dec(2, 100)))
                       ELSE commands
  /\ due' = FALSE
  /\ UNCHANGED <<points, bounds, delta, left, pc, sub, i, k, sub_dt, before,
                 moved, tested, frame, script, run>>

\* The systems of the frame have run: the queued Commands are applied, and the
\* spawned Points join the query.
apply_commands ==
  /\ pc = "idle"
  /\ ~run
  /\ ~due
  /\ commands # <<>>
  /\ points' = points \o commands
  /\ commands' = <<>>
  /\ before' = points \o commands
  /\ moved' = [j \in 1..Len(points \o commands) |-> 0]
  /\ tested' = [q \in 1..Len(Pairs(Len(points \o commands))) |-> 0]
  /\ UNCHANGED <<bounds, delta, left, pc, sub, i, k, sub_dt, frame, timer,
                 spawn_id, due, script, run>>

Next ==
  Tick \/ Start \/ Integrate \/ Collide \/ EndSubstep \/ spawn_item
    \/ apply_commands

Spec == Init /\ [][Next]_vars

(***************************************************************************)
(* Free fall: one particle at (0, 50) at rest, the floor at min_y = -12,   *)
(* and the host running update_points_system every frame, for ever, with   *)
(* one fixed delta.                                                        *)
(***************************************************************************)
FallBounds == {Bounds_new(-40, -12, 40, 60), MainBounds}

\* Fixed frame times from 1 ms to 800 ms.
FallDeltas == {Secs(1), Secs(8), Secs(16), Secs(100), Secs(400), Secs(800)}

InitFall ==
  \E b \in FallBounds, d \in FallDeltas :
    Idle(<<Point_new(0, Zero(0), Dec(50, 1), Zero(0), Zero(0))>>, b, d, 0, <<>>)

Frame == Enter(delta) /\ UNCHANGED <<left, host>>

NextFall == Frame \/ Integrate \/ EndSubstep

\* The call runs to completion and the host calls it again each frame: the
\* position in update_points_system always advances.  Advance is Next seen on
\* the position alone.
ctl == <<pc, sub, i, k>>

Advance ==
  \/ pc = "idle" /\ pc' = "move" /\ sub' = 0 /\ i' = 1 /\ k' = 1
  \/ /\ pc = "move"
     /\ pc' = (IF i = N THEN "pairs" ELSE "move")
     /\ sub' = sub /\ i' = i + 1 /\ k' = 1
  \/ /\ pc = "pairs" /\ k <= NPairs
     /\ pc' = pc /\ sub' = sub /\ i' = i /\ k' = k + 1
  \/ /\ pc = "pairs" /\ k > NPairs
     /\ pc' = (IF sub + 1 = SUBSTEPS THEN "idle" ELSE "move")
     /\ sub' = sub + 1 /\ i' = 1 /\ k' = 1

SpecFall == InitFall /\ [][NextFall]_vars /\ WF_ctl(Advance)

(***************************************************************************)
(* Repeated resolve calls on one pair, as update_points_system makes them: *)
(* solve_collision runs when colliding says so.                            *)
(***************************************************************************)
PairFirst ==
  { <<Zero(0), Zero(0)>>, <<Dec(79, 2), Dec(-23, 2)>>, <<Dec(1, 10), Dec(7, 10)>>,
    <<Dec(-3997, 100), Dec(3999, 100)>> }

PairOffset ==
  { <<Dec(1, 1), Zero(0)>>, <<Zero(0), Dec(1, 2)>>, <<Dec(1, 2), Dec(1, 4)>>,
    <<Dec(-3, 10), Dec(11, 10)>>, <<Dec(3, 2), Dec(1, 1)>>,
    <<Dec(-1, 1000), Dec(1, 1000)>>, <<Dec(-7, 5), Dec(-7, 5)>>,
    <<Dec(2, 1), Zero(0)>>, <<Zero(0), Zero(0)>> }

InitResolve ==
  \E c \in PairFirst, o \in PairOffset :
    /\ Idle(<<Point_new(0, c[1], c[2], Zero(0), Zero(0)),
              Point_new(1, FAdd(c[1], o[1]), FAdd(c[2], o[2]), Zero(0), Zero(0))>>,
            MainBounds, Zero(0), 0, <<>>)

Resolve ==
  /\ pc = "idle"
  /\ tested[1] < MaxCalls
  /\ colliding(points[1], points[2])
  /\ points' = solve_collision(points[1], points[2])
  /\ before' = points
  /\ tested' = [tested EXCEPT ![1] = tested[1] + 1]
  /\ UNCHANGED <<bounds, delta, left, pc, sub, i, k, sub_dt, moved, host>>

SpecResolve == InitResolve /\ [][Resolve]_vars

(***************************************************************************)
(* Vocabulary of the properties                                            *)
(***************************************************************************)
FAbs(a) == IF IsNaN(a) THEN NaN ELSE F32(0, a.exp, a.frac)

\* The tolerance of the statements "up to rounding": 1e-5, above the spacing of
\* the f32 values of magnitude below 64 (2^-18).
Tol == Dec(1, 100000)

IsNum(p) == ~IsNaN(p.x) /\ ~IsNaN(p.y)

InBounds(p) ==
  /\ FLe(IntToF(bounds.min_x), p.x) /\ FLe(p.x, IntToF(bounds.max_x))
  /\ FLe(IntToF(bounds.min_y), p.y) /\ FLe(p.y, IntToF(bounds.max_y))

\* A call of update_points_system has returned.
Stepped == pc = "idle" /\ moved[1] = SUBSTEPS

\* A substep has just ended.
AtBoundary == Stepped \/ (pc = "move" /\ i = 1 /\ sub > 0)

\* Particle j has been integrated in the current substep and no pair has been
\* tested since.
JustMoved(j) == (pc = "move" /\ j < i) \/ (pc = "pairs" /\ k = 1)

\* Where the Verlet move of j's latest integration put it, before constrain_point.
Raw(j) == verlet(apply_acceleration(before[j], Zero(0), GRAVITY), sub_dt)

penetration(p1, p2) == FSub(FAdd(p1.radius, p2.radius), dist(p1, p2))

\* A resolve call has been made, on a pair at non-zero distance.
Resolved ==
  /\ tested[1] > 0
  /\ FGt(dist(before[1], before[2]), Zero(0))

\* bound + v * FRICTION * BOUNCE, v the move from `was` to `at`.
Refl(bound, at, was) ==
  FAdd(IntToF(bound), FMul(FMul(FSub(at, was), FRICTION), BOUNCE))

\* What constrain_point leaves in the previous position of an axis: the
\* snapshot `was`, unless the moved position `at` left [lo, hi].
OldAfter(at, was, lo, hi) ==
  IF FGt(at, IntToF(hi)) THEN Refl(hi, at, was)
  ELSE IF FLt(at, IntToF(lo)) THEN Refl(lo, at, was)
  ELSE was

Clamped(at, lo, hi) == FGt(at, IntToF(hi)) \/ FLt(at, IntToF(lo))

\* The reflection of one axis: raw the position after the Verlet move, was the
\* snapshot, now and old the axis after constrain_point.
AxisOK(raw, was, now, old, lo, hi) ==
  LET v     == FSub(raw, was)
      w     == FMul(FMul(v, FRICTION), BOUNCE)
      after == FSub(now, old)
  IN IF FGt(raw, IntToF(hi))
     THEN /\ now = IntToF(hi)
          /\ old = FAdd(IntToF(hi), w)
          /\ FLe(FAbs(FAdd(after, w)), Tol)
          /\ FLe(after, Zero(0))
          /\ FLe(FAbs(after), FAbs(v))
     ELSE IF FLt(raw, IntToF(lo))
     THEN /\ now = IntToF(lo)
          /\ old = FAdd(IntToF(lo), w)
          /\ FLe(FAbs(FAdd(after, w)), Tol)
          /\ FLe(Zero(0), after)
          /\ FLe(FAbs(after), FAbs(v))
     ELSE now = raw /\ old = was

\* The displacements of the latest resolve call.
D1x == FSub(points[1].x, before[1].x)
D1y == FSub(points[1].y, before[1].y)
D2x == FSub(points[2].x, before[2].x)
D2y == FSub(points[2].y, before[2].y)

\* 0.5 * FRICTION, as solve_collision computes it.
Half == FMul(Dec(1, 2), FRICTION)

\* One resolve call has been made on radius-1 particles at rest at (0,0), (1,0).
Overlap ==
  /\ tested[1] = 1
  /\ before = << Point_new(0, Zero(0), Zero(0), Zero(0), Zero(0)),
                 Point_new(1, IntToF(1), Zero(0), Zero(0), Zero(0)) >>

(***************************************************************************)
(* Properties                                                              *)
(***************************************************************************)

\* C1: after a call of update_points_system has returned, every particle
\* (whose position is a number) lies within the bounds on both axes.
C1_ContainedAfterStep ==
  (Stepped /\ \A j \in 1..N : IsNum(points[j]))
    => \A j \in 1..N : InBounds(points[j])

\* C2: a call is exactly SUBSTEPS substeps; in substep `sub` every particle is
\* integrated (gravity applied, accumulator cleared) before any pair is tested,
\* and every pair is tested before any particle of substep sub + 1 is
\* integrated: the integration counts and the pair counts never interleave.
C2_SubstepOrdering ==
  /\ sub \in 0..SUBSTEPS
  /\ \A j \in 1..N : points[j].acc_x = Zero(0) /\ points[j].acc_y = Zero(0)
  /\ pc = "move" =>
       /\ sub < SUBSTEPS
       /\ \A j \in 1..N : moved[j] = sub + (IF j < i THEN 1 ELSE 0)
       /\ \A q \in 1..NPairs : tested[q] = sub
  /\ pc = "pairs" =>
       /\ sub < SUBSTEPS
       /\ \A j \in 1..N : moved[j] = sub + 1
       /\ \A q \in 1..NPairs : tested[q] = sub + (IF q < k THEN 1 ELSE 0)
  /\ pc = "idle" =>
       \/ /\ \A j \in 1..N : moved[j] = 0
          /\ \A q \in 1..NPairs : tested[q] = 0
       \/ /\ sub = SUBSTEPS
          /\ \A j \in 1..N : moved[j] = SUBSTEPS
          /\ \A q \in 1..NPairs : tested[q] = SUBSTEPS

\* The last substep of a call on three particles, between its pair tests.
C2_Witness == pc = "pairs" /\ N = 3 /\ k = 3 /\ sub = SUBSTEPS - 1

\* C3, as stated: solve_collision on a colliding pair at non-zero distance
\* displaces p2 by exactly the negation of p1's displacement.
C3_ExactlyOpposite ==
  Resolved => FEq(D1x, FNeg(D2x)) /\ FEq(D1y, FNeg(D2y))

\* C3, amended: the two displacements point in opposite directions on each
\* axis and cancel up to the rounding of the f32 additions (within Tol).
C3_OppositeUpToRounding ==
  Resolved =>
    /\ FLe(FAbs(FAdd(D1x, D2x)), Tol)
    /\ FLe(FAbs(FAdd(D1y, D2y)), Tol)
    /\ FLe(FMul(D1x, D2x), Zero(0))
    /\ FLe(FMul(D1y, D2y), Zero(0))

\* A resolve call that displaced p1 on both axes.
C3_Witness ==
  /\ Resolved
  /\ FLt(Zero(0), FAbs(D1x))
  /\ FLt(Zero(0), FAbs(D1y))

\* C4: a resolve call on a colliding pair at non-zero distance leaves the
\* penetration r1 + r2 - dist no larger than it was, strictly smaller when it
\* was above Tol, and at most a fiftieth of it (plus Tol): repeated calls
\* decrease the penetration toward zero.
C4_PenetrationDecreases ==
  Resolved =>
    LET was == penetration(before[1], before[2])
        now == penetration(points[1], points[2])
    IN /\ FLe(now, was)
       /\ FLe(Tol, was) => FLt(now, was)
       /\ FLe(now, FAdd(FMul(was, Dec(1, 50)), Tol))

\* The third call of a sequence, still reducing the penetration.
C4_Witness ==
  /\ Resolved
  /\ tested[1] >= 3
  /\ FLt(penetration(points[1], points[2]), penetration(before[1], before[2]))

\* C5, as stated: after one resolve call on the overlap scenario the pair is
\* no longer colliding.
C5_NoLongerColliding == Overlap => ~colliding(points[1], points[2])

\* C5, amended: each particle has moved exactly 0.5 * FRICTION along x, in
\* opposite directions, y unchanged; the centres are 1 + FRICTION apart, which
\* is below 2: the pair is still colliding.
C5_MovedHalfFriction ==
  Overlap =>
    /\ points[1].x = FNeg(Half)
    /\ points[2].x = FAdd(IntToF(1), Half)
    /\ FSub(points[2].x, before[2].x) = Half
    /\ FEq(points[1].y, Zero(0))
    /\ FEq(points[2].y, Zero(0))
    /\ dist(points[1], points[2]) = FAdd(IntToF(1), FRICTION)
    /\ colliding(points[1], points[2])

\* The overlap scenario after its resolve call.
C5_Witness == Overlap /\ FLt(points[1].x, Zero(0)) /\ FGt(points[2].x, IntToF(1))

\* C6, as stated: at every substep boundary the previous position of each
\* particle is the resolved position it had at the end of the substep before.
C6_OldIsResolvedPosition ==
  AtBoundary =>
    \A j \in 1..N : /\ points[j].old_x = before[j].x
                    /\ points[j].old_y = before[j].y

\* C6, amended: at every substep boundary the previous position of each
\* particle is, per axis, the resolved position it had at the end of the
\* substep before, unless the substep's move left the bounds on that axis:
\* then it is bound + v * FRICTION * BOUNCE.
C6_OldIsResolvedOrReflected ==
  AtBoundary =>
    \A j \in 1..N :
      /\ points[j].old_x = OldAfter(Raw(j).x, before[j].x,
                                    bounds.min_x, bounds.max_x)
      /\ points[j].old_y = OldAfter(Raw(j).y, before[j].y,
                                    bounds.min_y, bounds.max_y)

\* A substep boundary with a particle that moved freely on y and one that was
\* reflected at the floor or the ceiling.
C6_Witness ==
  /\ AtBoundary
  /\ \E j \in 1..N :
       /\ ~Clamped(Raw(j).y, bounds.min_y, bounds.max_y)
       /\ points[j].old_y = before[j].y
       /\ points[j].y # before[j].y
  /\ \E j \in 1..N :
       /\ Clamped(Raw(j).y, bounds.min_y, bounds.max_y)
       /\ points[j].old_y # before[j].y

\* C7: in every reachable state the position of every particle is finite.
C7_PositionsFinite ==
  \A j \in 1..N : IsFinite(points[j].x) /\ IsFinite(points[j].y)

\* C8, as stated: in free fall from (0, 50) with any fixed positive frame
\* delta, eventually the particle's y is -12 at the end of every later call.
C8_SettlesOnFloor == <>[](pc = "idle" => points[1].y = IntToF(-12))

\* C8, amended: with a fixed frame delta of 8 ms or more, eventually the
\* particle's y is -12 at the end of every later call; with a frame delta of
\* 1 ms, GRAVITY * sub_dt * sub_dt is lost in the rounding of the f32 addition
\* and the particle never comes below the ceiling or its starting height.
C8_SettlesOnFloorFromEightMs ==
  /\ <>[](FLe(Secs(8), delta) => (pc = "idle" => points[1].y = IntToF(-12)))
  /\ [](delta = Secs(1) =>
          \/ points[1].y = Dec(50, 1)
          \/ points[1].y = IntToF(bounds.max_y))

\* A call, of a run of frames of 8 ms or more, that began and ended with the
\* particle on the floor.
C8_Witness ==
  /\ Stepped
  /\ FLe(Secs(8), delta)
  /\ points[1].y = IntToF(-12)
  /\ before[1].y = IntToF(-12)

\* C9: after move_point, on each axis: a position that left the bounds is set
\* to the bound and its previous position to bound + v * FRICTION * BOUNCE, so
\* the velocity is -v * FRICTION * BOUNCE, points into the region and is no
\* larger than |v|; a position within the bounds is left as the move put it.
C9_Reflection ==
  \A j \in 1..N :
    JustMoved(j) =>
      /\ AxisOK(Raw(j).x, before[j].x, points[j].x, points[j].old_x,
                bounds.min_x, bounds.max_x)
      /\ AxisOK(Raw(j).y, before[j].y, points[j].y, points[j].old_y,
                bounds.min_y, bounds.max_y)

\* C10: a particle that move_point has just returned, no pair tested since,
\* lies within the bounds on both axes.
C10_InBoundsAfterIntegrate ==
  \A j \in 1..N : JustMoved(j) => InBounds(points[j])

====
